---- MODULE Spec2Model ----
(***************************************************************************)
(* Model of the rs2io packet buffers.                                      *)
(*                                                                         *)
(*   Packet    (src/src/packet/bytes.rs)  byte buffer with a cursor        *)
(*   PacketBit (src/src/packet/bits.rs)   bit-granular reader/writer       *)
(*                                                                         *)
(* Machine integers are bit vectors: sequences of 0/1, most significant    *)
(* bit first, as wide as the Rust type.  Stored bytes are numbers 0..255.  *)
(* Rust index i of a Vec or slice is element i+1 of the sequence.          *)
(*                                                                         *)
(* Every operation is an operator from a buffer value to the SET of its    *)
(* possible outcomes [p, kind, ret]: kind "ok" (returned normally or       *)
(* Ok(..)), "err" (returned Err), "panic" (the call aborted).  The set has *)
(* more than one element where the outcome depends on the build (integer   *)
(* overflow: panic with overflow checks, wrap without) or on the allocator *)
(* (the capacity a growing Vec ends up with).                              *)
(***************************************************************************)
EXTENDS Integers, Sequences, FiniteSets, TLC

VARIABLES
    bytes,              \* Packet.bytes: the Vec<u8> contents
    pos,                \* Packet.pos
    len,                \* Packet.len
    cap,                \* Packet.bytes.capacity()
    last,               \* the call that produced this state: [op, kind, n]
    ret,                \* the value that call returned
    calls,              \* number of calls made on the buffer so far
    rt,                 \* write-then-read session: [kind, phase, sent, got]
    buffer,             \* PacketBit.buffer: the boxed slice contents
    writer_byte_pos,    \* PacketBit.writer_byte_pos
    writer_bit_pos,     \* PacketBit.writer_bit_pos
    reader_byte_pos,    \* PacketBit.reader_byte_pos
    reader_bit_pos      \* PacketBit.reader_bit_pos

pkt_vars == <<bytes, pos, len, cap>>
bit_vars == <<buffer, writer_byte_pos, writer_bit_pos, reader_byte_pos, reader_bit_pos>>
vars == <<bytes, pos, len, cap, last, ret, calls, rt,
          buffer, writer_byte_pos, writer_bit_pos, reader_byte_pos, reader_bit_pos>>

\* Largest initial capacity and largest size argument explored.
MaxSize == 8

\* Longest sequence of calls explored on one Packet.
MaxCalls == 2
\* The longest sequence of values in a round trip.
MaxValues == 2
\* The most 8-byte blocks in the contents a cipher round trip starts from.
MaxBlocks == 2
\* Longest sequence of calls explored on one PacketBit.
MaxBitCalls == 3
\* The longest sequence of fields in a bit round trip.
MaxFields == 4

(***************************************************************************)
(* Bit vectors                                                             *)
(***************************************************************************)
Max2(a, b) == IF a >= b THEN a ELSE b
Min2(a, b) == IF a <= b THEN a ELSE b

\* Function constructors are copied into plain sequences (SubSeq) so that the
\* model checker evaluates each element once.
Zeros(n) == SubSeq([i \in 1..n |-> 0], 1, n)
Ones(n) == SubSeq([i \in 1..n |-> 1], 1, n)

\* The number an 8-bit slice of a bit vector denotes: bits k .. k+7.
Byte(b, k) ==
    128 * b[k] + 64 * b[k + 1] + 32 * b[k + 2] + 16 * b[k + 3]
    + 8 * b[k + 4] + 4 * b[k + 5] + 2 * b[k + 6] + b[k + 7]

\* The w-bit two's complement vector of the number n (n mod 2^w).
Bits(n, w) ==
    SubSeq([i \in 1..w |->
               IF w - i >= 31 THEN (IF n < 0 THEN 1 ELSE 0) ELSE (n \div (2 ^ (w - i))) % 2],
           1, w)

\* `as` casts between integer types: truncation, zero and sign extension.
Trunc(b, w) == SubSeq(b, Len(b) - w + 1, Len(b))
ZeroExt(b, w) == Zeros(w - Len(b)) \o b
SignExt(b, w) == SubSeq([i \in 1..(w - Len(b)) |-> b[1]], 1, w - Len(b)) \o b

\* T::to_be_bytes and T::from_be_bytes.
to_be_bytes(v) ==
    SubSeq([i \in 1..(Len(v) \div 8) |-> Byte(v, 8 * (i - 1) + 1)], 1, Len(v) \div 8)

from_be_bytes(bs) ==
    SubSeq([k \in 1..(8 * Len(bs)) |->
               (bs[(k + 7) \div 8] \div (2 ^ (7 - ((k - 1) % 8)))) % 2],
           1, 8 * Len(bs))

\* Addition of big-endian byte strings of equal length with carry in c:
\* the carry out followed by the bytes of the sum.
RECURSIVE AddBytes(_, _, _)
AddBytes(x, y, c) ==
    IF Len(x) = 0 THEN <<c>>
    ELSE LET n == Len(x)
             s == x[n] + y[n] + c
         IN Append(AddBytes(SubSeq(x, 1, n - 1), SubSeq(y, 1, n - 1), s \div 256), s % 256)

BitNot(a) == SubSeq([k \in 1..Len(a) |-> 1 - a[k]], 1, Len(a))
BitAnd(a, b) == SubSeq([k \in 1..Len(a) |-> a[k] * b[k]], 1, Len(a))
BitOr(a, b) == SubSeq([k \in 1..Len(a) |-> Max2(a[k], b[k])], 1, Len(a))
BitXor(a, b) == SubSeq([k \in 1..Len(a) |-> (a[k] + b[k]) % 2], 1, Len(a))

\* The operands of an addition as byte strings, carry out first.  The
\* operands have one width, and the test makes both known before the bytes
\* are added.
AddWords(a, b, c) ==
    LET x == to_be_bytes(a)
        y == to_be_bytes(b)
    IN IF Len(x) = Len(y) THEN AddBytes(x, y, c) ELSE <<c>>

\* wrapping_add / wrapping_sub, and whether the unsigned operation overflows.
WAdd(a, b) == from_be_bytes(Tail(AddWords(a, b, 0)))
WSub(a, b) == from_be_bytes(Tail(AddWords(a, BitNot(b), 1)))
AddOverflows(a, b) == AddWords(a, b, 0)[1] = 1
SubUnderflows(a, b) == AddWords(a, BitNot(b), 1)[1] = 0

\* Shifts by s < width: <<, >> on unsigned (logical) and on signed (arithmetic).
Shl(a, s) == SubSeq(a, s + 1, Len(a)) \o Zeros(s)
LShr(a, s) == Zeros(s) \o SubSeq(a, 1, Len(a) - s)
AShr(a, s) == SubSeq([i \in 1..s |-> a[1]], 1, s) \o SubSeq(a, 1, Len(a) - s)

(***************************************************************************)
(* Outcomes                                                                *)
(***************************************************************************)
Unit == <<>>
Ok(p, r) == [p |-> p, kind |-> "ok", ret |-> r]
\* error(reason): PacketError::Io of ErrorKind::Other, whatever the reason
Err(p) == [p |-> p, kind |-> "err", ret |-> Unit]
Panic(p) == [p |-> p, kind |-> "panic", ret |-> Unit]

\* An arithmetic overflow panics when the build checks overflow and wraps
\* when it does not.
Overflowing(flag, p, wrapped) == IF flag THEN {Panic(p), wrapped} ELSE {wrapped}

(***************************************************************************)
(* Vec<u8>                                                                 *)
(***************************************************************************)
\* Capacity after a reallocation for `needed` elements: at least `needed`;
\* the exact request, or the amortized growth of the standard library.
Realloc(old, needed) == {needed, Max2(needed, Max2(2 * old, 8))}

\* A resize that allocates afresh and does not carry the old contents over.
VecResize_fresh(p, new_len) ==
    IF new_len > Len(p.bytes)
    THEN { [p EXCEPT !.bytes = Zeros(new_len), !.cap = c] :
             c \in (IF new_len > p.cap THEN Realloc(p.cap, new_len) ELSE {p.cap}) }
    ELSE { [p EXCEPT !.bytes = SubSeq(p.bytes, 1, new_len)] }

\* Vec::resize(new_len, 0) on p.bytes.
VecResize(p, new_len) ==
    IF new_len > Len(p.bytes)
    THEN { [p EXCEPT !.bytes = p.bytes \o Zeros(new_len - Len(p.bytes)), !.cap = c] :
             c \in (IF new_len > p.cap THEN Realloc(p.cap, new_len) ELSE {p.cap}) }
    ELSE { [p EXCEPT !.bytes = SubSeq(p.bytes, 1, new_len)] }

\* copy_from_slice of `value` into bs[at .. at + value.len()].
CopyInto(bs, at, value) ==
    SubSeq([i \in 1..Len(bs) |->
               IF i > at /\ i <= at + Len(value) THEN value[i - at] ELSE bs[i]],
           1, Len(bs))

(***************************************************************************)
(* Packet: construction and storage management                             *)
(***************************************************************************)
new(capacity) == [bytes |-> Zeros(capacity), pos |-> 0, len |-> 0, cap |-> capacity]

\* impl From<&[u8]> for Packet: the slice is the written contents.
from(value) == [bytes |-> value, pos |-> 0, len |-> Len(value), cap |-> Len(value)]

ensure_capacity(p, space_needed) ==
    LET required_len == p.pos + space_needed
    IN IF required_len > Len(p.bytes) THEN VecResize(p, required_len) ELSE {p}

\* available takes self.len(), the length of the storage, where
\* available_count takes the field len.  None is <<>> and Some(n) is <<n>>.
available(p) ==
    LET overflowed == Len(p.bytes) < p.pos
    IN IF overflowed THEN <<>> ELSE <<Len(p.bytes) - p.pos>>

available_count(p) == IF p.len >= p.pos THEN p.len - p.pos ELSE 0

has_available(p, count) == available(p) # <<>> /\ available(p)[1] >= count

\* The cursor update shared by the writers that maintain len.
Advance(p, n) ==
    [p EXCEPT !.pos = p.pos + n,
              !.len = IF p.pos + n > p.len THEN p.pos + n ELSE p.len]

\* macro p!
p_macro(p, value) ==
    { Ok(Advance([q EXCEPT !.bytes = CopyInto(q.bytes, p.pos, value)], Len(value)), Unit) :
        q \in ensure_capacity(p, Len(value)) }

write_at_cursor(p, value) ==
    LET slice_len == Len(value)
        grown == IF p.cap < p.pos + slice_len
                 THEN VecResize(p, p.pos + slice_len)
                 ELSE {p}
    IN { IF q.pos + slice_len > Len(q.bytes)
         THEN Panic(q)
         ELSE Ok(Advance([q EXCEPT !.bytes = CopyInto(q.bytes, q.pos, value)], slice_len),
                 Unit) :
         q \in grown }

\* macro g!
g_macro(p, value_size) ==
    IF p.pos + value_size > p.len THEN {Err(p)}
    ELSE IF p.pos + value_size > Len(p.bytes) THEN {Panic(p)}
    ELSE {Ok([p EXCEPT !.pos = p.pos + value_size],
             from_be_bytes(SubSeq(p.bytes, p.pos + 1, p.pos + value_size)))}


(***************************************************************************)
(* Packet: reads                                                           *)
(***************************************************************************)
\* self.bytes[i]
ByteAt(p, i) == Bits(p.bytes[i + 1], 8)
InBounds(p, i) == i < Len(p.bytes)

g1(p) == g_macro(p, 1)
g1s(p) == g_macro(p, 1)
g2(p) == g_macro(p, 2)
g2s(p) == g_macro(p, 2)
g4(p) == g_macro(p, 4)
g4s(p) == g_macro(p, 4)
g8(p) == g_macro(p, 8)
g8s(p) == g_macro(p, 8)

g1_alt1(p) ==
    LET q == [p EXCEPT !.pos = p.pos + 1]
    IN IF ~InBounds(q, q.pos - 1) THEN {Panic(q)}
       ELSE LET b == ByteAt(q, q.pos - 1)
            IN Overflowing(SubUnderflows(b, Bits(128, 8)), q,
                           Ok(q, BitAnd(WSub(b, Bits(128, 8)), Bits(255, 8))))

g1_alt2(p) ==
    LET q == [p EXCEPT !.pos = p.pos + 1]
    IN IF ~InBounds(q, q.pos - 1) THEN {Panic(q)}
       ELSE {Ok(q, BitAnd(BitNot(ByteAt(q, q.pos - 1)), Bits(255, 8)))}

g1_alt3(p) ==
    LET q == [p EXCEPT !.pos = p.pos + 1]
    IN IF ~InBounds(q, q.pos - 1) THEN {Panic(q)}
       ELSE LET b == ByteAt(q, q.pos - 1)
            IN Overflowing(SubUnderflows(Bits(128, 8), b), q,
                           Ok(q, BitAnd(WSub(Bits(128, 8), b), Bits(255, 8))))

\* bytes[pos-1] as u16 & (255 << 8) | bytes[pos-2] as u16 & 255
g2_alt1(p) ==
    LET q == [p EXCEPT !.pos = p.pos + 2]
    IN IF ~InBounds(q, q.pos - 1) THEN {Panic(q)}
       ELSE {Ok(q, BitOr(BitAnd(ZeroExt(ByteAt(q, q.pos - 1), 16), Shl(Bits(255, 16), 8)),
                         BitAnd(ZeroExt(ByteAt(q, q.pos - 2), 16), Bits(255, 16))))}

\* (bytes[pos-2] as u16 & (255 << 8)) | ((bytes[pos-1] as u16 - 128) & 255)
g2_alt2(p) ==
    LET q == [p EXCEPT !.pos = p.pos + 2]
    IN IF ~InBounds(q, q.pos - 2) \/ ~InBounds(q, q.pos - 1) THEN {Panic(q)}
       ELSE LET hi == ZeroExt(ByteAt(q, q.pos - 2), 16)
                lo == ZeroExt(ByteAt(q, q.pos - 1), 16)
            IN Overflowing(SubUnderflows(lo, Bits(128, 16)), q,
                   Ok(q, BitOr(BitAnd(hi, Shl(Bits(255, 16), 8)),
                               BitAnd(WSub(lo, Bits(128, 16)), Bits(255, 16)))))

\* ((bytes[pos-2] as u16 - 128) & 255) | (bytes[pos-1] as u16) << 8
g2_alt3(p) ==
    LET q == [p EXCEPT !.pos = p.pos + 2]
    IN IF ~InBounds(q, q.pos - 2) \/ ~InBounds(q, q.pos - 1) THEN {Panic(q)}
       ELSE LET lo == ZeroExt(ByteAt(q, q.pos - 2), 16)
                hi == ZeroExt(ByteAt(q, q.pos - 1), 16)
            IN Overflowing(SubUnderflows(lo, Bits(128, 16)), q,
                   Ok(q, BitOr(BitAnd(WSub(lo, Bits(128, 16)), Bits(255, 16)),
                               Shl(hi, 8))))

g3(p) ==
    LET q == [p EXCEPT !.pos = p.pos + 3]
    IN IF ~InBounds(q, q.pos - 3) \/ ~InBounds(q, q.pos - 2) \/ ~InBounds(q, q.pos - 1)
       THEN {Panic(q)}
       ELSE {Ok(q, BitOr(BitOr(Shl(ZeroExt(ByteAt(q, q.pos - 3), 64), 16),
                               Shl(ZeroExt(ByteAt(q, q.pos - 2), 64), 8)),
                         ZeroExt(ByteAt(q, q.pos - 1), 64)))}

\* Option<u8>: <<>> is None, <<b>> is Some(b).
peek(p) ==
    IF available_count(p) = 0 THEN <<>>
    ELSE IF InBounds(p, p.pos) THEN <<p.bytes[p.pos + 1]>> ELSE <<>>

\* Result::map over a set of outcomes, for a closure that may overflow.
MapOk(outs, f(_), overflows(_)) ==
    UNION { IF o.kind = "ok"
            THEN Overflowing(overflows(o.ret), o.p, Ok(o.p, f(o.ret)))
            ELSE {o} : o \in outs }

gsmart_u16(p) ==
    IF peek(p) # <<>>
    THEN IF peek(p)[1] > 127
         THEN MapOk(g2s(p),
                    LAMBDA v : WSub(SignExt(v, 64), Bits(32768, 64)),
                    LAMBDA v : SubUnderflows(SignExt(v, 64), Bits(32768, 64)))
         ELSE MapOk(g1(p), LAMBDA v : ZeroExt(v, 64), LAMBDA v : FALSE)
    ELSE {Err(p)}

\* next & 0x80 == 0
gsmart_u32(p) ==
    IF peek(p) # <<>>
    THEN IF Bits(peek(p)[1], 8)[1] = 0
         THEN MapOk(g2s(p),
                    LAMBDA v : WSub(SignExt(v, 32), Bits(16384, 32)),
                    LAMBDA v : SubUnderflows(SignExt(v, 32), Bits(16384, 32)))
         ELSE MapOk(g4s(p),
                    LAMBDA v : WSub(v, Bits(1073741824, 32)),
                    LAMBDA v : SubUnderflows(v, Bits(1073741824, 32)))
    ELSE {Err(p)}

\* memchr(0, s): the offset of the first 0 in s, or -1 for None.
RECURSIVE memchr0(_)
memchr0(s) ==
    IF Len(s) = 0 THEN -1
    ELSE IF s[1] = 0 THEN 0
    ELSE LET r == memchr0(Tail(s)) IN IF r < 0 THEN -1 ELSE r + 1

\* The code points windows-1252 gives the bytes 0x80..0x9F.
Cp1252High ==
    <<8364, 129, 8218, 402, 8222, 8230, 8224, 8225, 710, 8240, 352, 8249, 338, 141, 381, 143,
      144, 8216, 8217, 8220, 8221, 8226, 8211, 8212, 732, 8482, 353, 8250, 339, 157, 382, 376>>

StartsWith(s, prefix) == Len(s) >= Len(prefix) /\ SubSeq(s, 1, Len(prefix)) = prefix

\* WINDOWS_1252.decode(slice): Encoding::decode sniffs a byte order mark and
\* decodes with the encoding it names; windows-1252 itself maps every byte.
\* The string is the sequence of its code points; the marked encodings are
\* outside the inputs explored and are reported as malformed.
Sniffed(slice) ==
    \/ StartsWith(slice, <<239, 187, 191>>)
    \/ StartsWith(slice, <<255, 254>>)
    \/ StartsWith(slice, <<254, 255>>)

Decode1252(slice) ==
    [string |-> SubSeq([i \in 1..Len(slice) |->
                           IF slice[i] >= 128 /\ slice[i] < 160
                           THEN Cp1252High[slice[i] - 127]
                           ELSE slice[i]], 1, Len(slice)),
     had_errors |-> Sniffed(slice)]

gjstr(p) ==
    IF p.pos > Len(p.bytes) THEN {Panic(p)}
    ELSE LET null_pos == memchr0(SubSeq(p.bytes, p.pos + 1, Len(p.bytes)))
         IN IF null_pos >= 0
            THEN LET end == p.pos + null_pos
                     decoded == Decode1252(SubSeq(p.bytes, p.pos + 1, end))
                     q == [p EXCEPT !.pos = end + 1]
                 IN IF decoded.had_errors THEN {Err(q)} ELSE {Ok(q, decoded.string)}
            ELSE {Err(p)}

gdata(p, n) ==
    LET end == Min2(p.pos + n, Len(p.bytes))
    IN IF p.pos > end THEN {Panic(p)}
       ELSE {Ok([p EXCEPT !.pos = p.pos + n], SubSeq(p.bytes, p.pos + 1, end))}


(***************************************************************************)
(* Packet: writes                                                          *)
(***************************************************************************)
\* self.bytes[i] = b, for a bit vector b of 8 bits
SetByte(p, i, b) == [p EXCEPT !.bytes[i + 1] = Byte(b, 1)]

\* Unsigned and signed comparison of bit vectors of the same width.
ULt(a, b) == SubUnderflows(a, b)
ULe(a, b) == ~ULt(b, a)
FlipSign(a) == <<1 - a[1]>> \o Tail(a)
SLe(a, b) == ULe(FlipSign(a), FlipSign(b))

p1(p, value) == p_macro(p, to_be_bytes(value))
p1s(p, value) == p_macro(p, to_be_bytes(value))
p2s(p, value) == p_macro(p, to_be_bytes(value))
p2(p, value) == write_at_cursor(p, to_be_bytes(value))
p4s(p, value) == p_macro(p, to_be_bytes(value))
p4(p, value) == p_macro(p, to_be_bytes(value))
p8(p, value) == p_macro(p, to_be_bytes(value))

p1_alt1(p, value) ==
    UNION { Overflowing(AddOverflows(value, Bits(128, 8)), q,
                Ok(Advance(SetByte(q, q.pos, WAdd(value, Bits(128, 8))), 1), Unit)) :
            q \in ensure_capacity(p, 1) }

p1_alt2(p, value) ==
    { LET r == [q EXCEPT !.pos = q.pos + 1]
      IN Ok(SetByte(r, r.pos - 1, BitNot(value)), Unit) :
      q \in ensure_capacity(p, 1) }

\* value: usize
p1_alt3(p, value) ==
    UNION { LET r == [q EXCEPT !.pos = q.pos + 1]
            IN Overflowing(SubUnderflows(Bits(128, 64), value), r,
                   Ok(SetByte(r, r.pos - 1, Trunc(WSub(Bits(128, 64), value), 8)), Unit)) :
            q \in ensure_capacity(p, 1) }

p2_alt1(p, value) ==
    { LET r == [q EXCEPT !.pos = q.pos + 2]
          r1 == SetByte(r, r.pos - 2, Trunc(value, 8))
      IN Ok(SetByte(r1, r.pos - 1, Trunc(LShr(value, 8), 8)), Unit) :
      q \in ensure_capacity(p, 2) }

p2_alt2(p, value) ==
    UNION { LET r == [q EXCEPT !.pos = q.pos + 2]
                r1 == SetByte(r, r.pos - 2, Trunc(LShr(value, 8), 8))
            IN Overflowing(AddOverflows(value, Bits(128, 16)), r1,
                   Ok(SetByte(r1, r.pos - 1, Trunc(WAdd(value, Bits(128, 16)), 8)), Unit)) :
            q \in ensure_capacity(p, 2) }

p2_alt3(p, value) ==
    UNION { LET r == [q EXCEPT !.pos = q.pos + 2]
                r1 == SetByte(r, r.pos - 2, Trunc(WAdd(value, Bits(128, 16)), 8))
            IN Overflowing(AddOverflows(value, Bits(128, 16)), r,
                   Ok(SetByte(r1, r.pos - 1, Trunc(LShr(value, 8), 8)), Unit)) :
            q \in ensure_capacity(p, 2) }

\* value: u32
p3(p, value) ==
    { LET r1 == SetByte(q, q.pos, Trunc(LShr(value, 16), 8))
          r2 == SetByte(r1, q.pos + 1, Trunc(LShr(value, 8), 8))
          r3 == SetByte(r2, q.pos + 2, Trunc(value, 8))
      IN Ok(Advance(r3, 3), Unit) :
      q \in ensure_capacity(p, 3) }

\* Sequential composition: run f on the buffer of every "ok" outcome.
AndThen(outs, f(_)) == UNION { IF o.kind = "ok" THEN f(o.p) ELSE {o} : o \in outs }

\* value: the bytes of the str
\* A pjstr that leaves the terminator out.
pjstr_unterminated(p, value) == p_macro(p, value)

pjstr(p, value) == AndThen(p_macro(p, value), LAMBDA q : p1(q, Bits(0, 8)))

gjstr2(p, value) == AndThen(p1(p, Bits(0, 8)), LAMBDA q : pjstr(q, value))

\* value: usize
psmart_u16(p, value) ==
    IF ULe(value, Bits(127, 64))
    THEN p1s(p, Trunc(value, 8))
    ELSE p2(p, Trunc(value, 16))

\* value: isize
psmart_u32(p, value) ==
    IF SLe(Bits(-16384, 64), value) /\ SLe(value, Bits(16383, 64))
    THEN UNION { IF o.kind = "panic" THEN {o} ELSE p2(p, o.ret) :
                 o \in Overflowing(AddOverflows(Trunc(value, 16), Bits(16384, 16)), p,
                                   Ok(p, WAdd(Trunc(value, 16), Bits(16384, 16)))) }
    ELSE IF SLe(Bits(1073741824, 64), value) /\ SLe(value, Bits(1073741823, 64))
    THEN p4s(p, BitOr(<<1>> \o Zeros(31),
                      Trunc(WAdd(value, Bits(1073741824, 64)), 32)))
    ELSE {Ok(p, Unit)}

pdata(p, data) ==
    LET bytes_to_write == Min2(Len(data), available_count(p))
    IN IF bytes_to_write > 0
       THEN LET end == p.pos + bytes_to_write
            IN IF end > Len(p.bytes) THEN {Panic(p)}
               ELSE {Ok([p EXCEPT !.bytes = CopyInto(p.bytes, p.pos,
                                                     SubSeq(data, 1, bytes_to_write)),
                                  !.pos = p.pos + bytes_to_write], Unit)}
       ELSE {Ok(p, Unit)}

(***************************************************************************)
(* Packet: cursor and extent                                               *)
(***************************************************************************)
set_pos(p, index) == IF index > p.len THEN {Err(p)} ELSE {Ok([p EXCEPT !.pos = index], Unit)}

skip(p, n) == {Ok([p EXCEPT !.pos = p.pos + Min2(n, available_count(p))], Unit)}

clear(p) == {Ok([p EXCEPT !.pos = 0, !.len = 0], Unit)}

set_len(p, n) ==
    { Ok([q EXCEPT !.len = n], Unit) :
      q \in (IF n > Len(p.bytes) THEN VecResize(p, n) ELSE {p}) }

\* Vec::extend_from_slice, then len = bytes.len()
append_slice(p, slice) ==
    LET n == Len(p.bytes) + Len(slice)
    IN { Ok([p EXCEPT !.bytes = p.bytes \o slice, !.cap = c, !.len = n], Unit) :
         c \in (IF n > p.cap THEN Realloc(p.cap, n) ELSE {p.cap}) }

\* copy_within(pos..len, 0)
compact(p) ==
    IF p.pos = 0 THEN {Ok(p, Unit)}
    ELSE IF p.pos >= p.len THEN {Ok([p EXCEPT !.len = 0, !.pos = 0], Unit)}
    ELSE IF p.len > Len(p.bytes) THEN {Panic(p)}
    ELSE {Ok([p EXCEPT !.bytes = CopyInto(p.bytes, 0, SubSeq(p.bytes, p.pos + 1, p.len)),
                       !.len = p.len - p.pos,
                       !.pos = 0], Unit)}


(***************************************************************************)
(* Packet: the block cipher                                                *)
(***************************************************************************)
\* delta = -1640531527i32
Delta == Bits(-1640531527, 32)

\* key[(x & 3) as usize], for a key of four i32 words
KeyWord(key, x) == key[2 * x[31] + x[32] + 1]

\* (v << 4 ^ v >> 5).wrapping_add(v) ^ k.wrapping_add(sum), on i32
Mix(v, k, sum) ==
    LET left == WAdd(BitXor(Shl(v, 4), AShr(v, 5)), v)
        right == WAdd(k, sum)
    IN BitXor(left, right)

\* One pass of the 32-round loops; a state is <<v0, v1, sum>>.  The tuple
\* lists the assignments in program order.
EncryptRound(s, key) ==
    LET k1 == KeyWord(key, AShr(s[3], 11))
        m1 == Mix(s[1], k1, s[3])
        v1 == WAdd(s[2], m1)
        sum == WAdd(s[3], Delta)
        k0 == KeyWord(key, sum)
        m0 == Mix(v1, k0, sum)
        v0 == WAdd(s[1], m0)
        steps == <<k1, m1, v1, sum, k0, m0, v0>>
    IN <<steps[7], steps[3], steps[4]>>

DecryptRound(s, key) ==
    LET k0 == KeyWord(key, s[3])
        m0 == Mix(s[2], k0, s[3])
        v0 == WSub(s[1], m0)
        sum == WSub(s[3], Delta)
        k1 == KeyWord(key, AShr(sum, 11))
        m1 == Mix(v0, k1, sum)
        v1 == WSub(s[2], m1)
        steps == <<k0, m0, v0, sum, k1, m1, v1>>
    IN <<steps[3], steps[7], steps[4]>>

\* n passes of a loop body.  The passes are made in two halves, the state
\* after the first half being known before the second starts.
Known(s) == Len(s[1]) = 32 /\ Len(s[2]) = 32 /\ Len(s[3]) = 32

RECURSIVE EncryptRounds(_, _, _)
EncryptRounds(s, key, n) ==
    IF n = 0 THEN s
    ELSE IF n = 1 THEN EncryptRound(s, key)
    ELSE LET t == EncryptRounds(s, key, n \div 2)
         IN IF Known(t) THEN EncryptRounds(t, key, n - n \div 2) ELSE t

RECURSIVE DecryptRounds(_, _, _)
DecryptRounds(s, key, n) ==
    IF n = 0 THEN s
    ELSE IF n = 1 THEN DecryptRound(s, key)
    ELSE LET t == DecryptRounds(s, key, n \div 2)
         IN IF Known(t) THEN DecryptRounds(t, key, n - n \div 2) ELSE t

\* The blocks' loop bodies: the two words after the 32 rounds.
encrypt_block(v0, v1, key) == EncryptRounds(<<v0, v1, Zeros(32)>>, key, 32)
decrypt_block(v0, v1, key) == DecryptRounds(<<v0, v1, Shl(Delta, 5)>>, key, 32)

\* self.pos -= 8; self.p4(v0.try_into().unwrap()); self.p4(v1.try_into().unwrap())
\* i32 -> u32 try_into fails on a negative word and unwrap panics.
WriteBack(p, v0, v1) ==
    LET q == [p EXCEPT !.pos = p.pos - 8]
    IN IF v0[1] = 1 THEN {Panic(q)}
       ELSE UNION { IF o.kind # "ok" THEN {o}
                    ELSE IF v1[1] = 1 THEN {Panic(o.p)}
                    ELSE p4(o.p, v1) :
                    o \in p4(q, v0) }

\* One iteration of `for _ in 0..block_count`; decrypt selects the cipher.
CipherBlock(p, key, decrypt) ==
    UNION { IF a.kind # "ok" THEN {a}
            ELSE UNION { IF b.kind # "ok" THEN {b}
                         ELSE LET w == IF decrypt
                                       THEN decrypt_block(a.ret, b.ret, key)
                                       ELSE encrypt_block(a.ret, b.ret, key)
                              IN WriteBack(b.p, w[1], w[2]) :
                         b \in g4s(a.p) } :
            a \in g4s(p) }

RECURSIVE CipherBlocks(_, _, _, _)
CipherBlocks(p, key, decrypt, block_count) ==
    IF block_count = 0 THEN {Ok(p, Unit)}
    ELSE AndThen(CipherBlock(p, key, decrypt),
                 LAMBDA q : CipherBlocks(q, key, decrypt, block_count - 1))

tiny_key_encrypt(p, key) ==
    CipherBlocks([p EXCEPT !.pos = 0], key, FALSE, Len(p.bytes) \div 8)

tiny_key_decrypt(p, key) ==
    CipherBlocks([p EXCEPT !.pos = 0], key, TRUE, Len(p.bytes) \div 8)

\* (end - start) / 8 on usize: with end < start the subtraction overflows,
\* and the wrapped count exceeds the blocks any storage holds, so the loop
\* runs until a read fails.
CipherRange(p, key, decrypt, start, end) ==
    LET original_pos == p.pos
        q == [p EXCEPT !.pos = start]
        run(block_count) ==
            AndThen(CipherBlocks(q, key, decrypt, block_count),
                    LAMBDA r : {Ok([r EXCEPT !.pos = original_pos], Unit)})
    IN IF end < start
       THEN {Panic(q)} \cup run(Len(p.bytes) \div 8 + 1)
       ELSE run((end - start) \div 8)

tiny_key_encrypt_range(p, key, start, end) == CipherRange(p, key, FALSE, start, end)
tiny_key_decrypt_range(p, key, start, end) == CipherRange(p, key, TRUE, start, end)

(***************************************************************************)
(* PacketBit                                                               *)
(***************************************************************************)
(* Packet: rsa_encrypt.  The integers of num_bigint exceed the integers of *)
(* the model checker; since the plain text only feeds one modpow, it is    *)
(* kept as its residue modulo the modulus of that call.                    *)
(***************************************************************************)
\* The unsigned big-endian value of data, modulo m.
RECURSIVE Residue(_, _)
Residue(data, m) ==
    IF Len(data) = 0 THEN 0
    ELSE (256 * Residue(SubSeq(data, 1, Len(data) - 1), m) + data[Len(data)]) % m

\* 256^n modulo m: the weight of the sign of an n-byte two's complement.
RECURSIVE SignWeight(_, _)
SignWeight(n, m) == IF n = 0 THEN 1 % m ELSE (256 * SignWeight(n - 1, m)) % m

\* BigInt::from_signed_bytes_be(data), modulo m; the empty slice is 0.
from_signed_bytes_be(data, m) ==
    IF Len(data) = 0 THEN 0
    ELSE IF data[1] >= 128
    THEN (Residue(data, m) + m - SignWeight(Len(data), m)) % m
    ELSE Residue(data, m)

\* BigInt::modpow for a positive modulus: the result is in [0, modulus).
RECURSIVE modpow(_, _, _)
modpow(base, exponent, modulus) ==
    IF exponent = 0 THEN 1 % modulus
    ELSE LET half == modpow(base, exponent \div 2, modulus)
             square == (half * half) % modulus
         IN IF exponent % 2 = 1 THEN (square * base) % modulus ELSE square

\* BigInt::to_signed_bytes_be: the shortest two's complement of n, at least
\* one byte.
to_signed_bytes_be(n) ==
    LET width == IF -128 <= n /\ n < 128 THEN 1
                 ELSE IF -32768 <= n /\ n < 32768 THEN 2
                 ELSE IF -8388608 <= n /\ n < 8388608 THEN 3
                 ELSE 4
    IN to_be_bytes(Bits(n, 8 * width))

rsa_encrypt(p, exponent, modulus) ==
    LET input_len == p.pos
    IN UNION { IF g.kind # "ok" THEN {g}
               ELSE LET bigint == from_signed_bytes_be(g.ret, modulus)
                        result == modpow(bigint, exponent, modulus)
                        encrypted == to_signed_bytes_be(result)
                    IN AndThen(p2([g.p EXCEPT !.pos = 0], Bits(Len(encrypted), 16)),
                               LAMBDA q : pdata(q, encrypted)) :
               g \in gdata([p EXCEPT !.pos = 0], input_len) }

(***************************************************************************)
\* BIT_MASKS[n]: the u32 with the low n bits set.
BIT_MASKS(n) == Zeros(32 - n) \o Ones(n)

BITS_PER_BYTE == 8

InvalidInput(b) == [p |-> b, kind |-> "invalid_input", ret |-> Unit]
UnexpectedEof(b) == [p |-> b, kind |-> "unexpected_eof", ret |-> Unit]
\* A call that never returns.
Hang(b) == [p |-> b, kind |-> "hang", ret |-> Unit]

with_capacity(capacity) ==
    [writer_byte_pos |-> 0, writer_bit_pos |-> 0,
     reader_byte_pos |-> 0, reader_bit_pos |-> 0,
     buffer |-> Zeros(capacity)]

from_bytes(data) ==
    [writer_byte_pos |-> Len(data), writer_bit_pos |-> 0,
     reader_byte_pos |-> 0, reader_bit_pos |-> 0,
     buffer |-> data]

bits_written(b) == (b.writer_byte_pos * BITS_PER_BYTE) + b.writer_bit_pos
bits_read(b) == (b.reader_byte_pos * BITS_PER_BYTE) + b.reader_bit_pos
bytes_written(b) == b.writer_byte_pos + (IF b.writer_bit_pos > 0 THEN 1 ELSE 0)

\* while new_capacity < required_capacity { new_capacity *= 2 }
RECURSIVE Doubled(_, _)
Doubled(new_capacity, required_capacity) ==
    IF new_capacity < required_capacity
    THEN Doubled(new_capacity * 2, required_capacity)
    ELSE new_capacity

\* PacketBit::ensure_capacity.  From an empty buffer the doubling loop
\* multiplies 0 by 2 for ever.
PacketBit_ensure_capacity(b, required_capacity) ==
    IF required_capacity <= Len(b.buffer) THEN {Ok(b, Unit)}
    ELSE IF Len(b.buffer) = 0 THEN {Hang(b)}
    ELSE LET new_capacity == Doubled(Len(b.buffer), required_capacity)
         IN {Ok([b EXCEPT !.buffer = b.buffer \o Zeros(new_capacity - Len(b.buffer))], Unit)}

\* A width check that forgets the width 0.
InvalidBits_upper(num_bits) == num_bits > 32

\* num_bits == 0 || num_bits > 32
InvalidBits(num_bits) == num_bits = 0 \/ num_bits > 32

\* Bits placed at the low end of the byte whatever room is left.
byte_shift_low(bits_available, bits_to_move) == 0

\* let byte_shift = bits_available - bits_to_write (bits_to_read)
byte_shift(bits_available, bits_to_move) == bits_available - bits_to_move

\* The while loop of write_bits.
RECURSIVE WriteLoop(_, _, _)
WriteLoop(b, bits_remaining, value_remaining) ==
    IF bits_remaining = 0 THEN Ok(b, Unit)
    ELSE IF b.writer_byte_pos >= Len(b.buffer) THEN Panic(b)
    ELSE LET bits_available == BITS_PER_BYTE - b.writer_bit_pos
             bits_to_write == Min2(bits_remaining, bits_available)
             shift == bits_remaining - bits_to_write
             bits_for_this_byte ==
                 BitAnd(LShr(value_remaining, shift), BIT_MASKS(bits_to_write))
             stored == BitOr(Bits(b.buffer[b.writer_byte_pos + 1], 8),
                             Trunc(Shl(bits_for_this_byte,
                                       byte_shift(bits_available, bits_to_write)), 8))
             b1 == [b EXCEPT !.buffer[b.writer_byte_pos + 1] = Byte(stored, 1),
                             !.writer_bit_pos = @ + bits_to_write]
             b2 == IF b1.writer_bit_pos >= BITS_PER_BYTE
                   THEN [b1 EXCEPT !.writer_byte_pos = @ + 1, !.writer_bit_pos = 0]
                   ELSE b1
         IN WriteLoop(b2, bits_remaining - bits_to_write,
                      BitAnd(value_remaining, BIT_MASKS(bits_remaining - bits_to_write)))

\* value: u32 as a vector of 32 bits
write_bits(b, value, num_bits) ==
    IF InvalidBits(num_bits) THEN {InvalidInput(b)}
    ELSE { IF o.kind = "ok"
           THEN WriteLoop(o.p, num_bits, BitAnd(value, BIT_MASKS(num_bits)))
           ELSE o :
           o \in PacketBit_ensure_capacity(
                     b, b.writer_byte_pos + ((b.writer_bit_pos + num_bits + 7) \div 8)) }

\* The while loop of read_bits.
RECURSIVE ReadLoop(_, _, _)
ReadLoop(b, bits_remaining, result) ==
    IF bits_remaining = 0 THEN Ok(b, result)
    ELSE IF b.reader_byte_pos >= Len(b.buffer) THEN Panic(b)
    ELSE LET bits_available == BITS_PER_BYTE - b.reader_bit_pos
             bits_to_read == Min2(bits_remaining, bits_available)
             mask == Trunc(BIT_MASKS(bits_to_read), 8)
             bits_from_this_byte ==
                 BitAnd(LShr(Bits(b.buffer[b.reader_byte_pos + 1], 8),
                             byte_shift(bits_available, bits_to_read)), mask)
             result_shift == bits_remaining - bits_to_read
             b1 == [b EXCEPT !.reader_bit_pos = @ + bits_to_read]
             b2 == IF b1.reader_bit_pos >= BITS_PER_BYTE
                   THEN [b1 EXCEPT !.reader_byte_pos = @ + 1, !.reader_bit_pos = 0]
                   ELSE b1
         IN ReadLoop(b2, bits_remaining - bits_to_read,
                     BitOr(result, Shl(ZeroExt(bits_from_this_byte, 32), result_shift)))

read_bits(b, num_bits) ==
    IF InvalidBits(num_bits) THEN {InvalidInput(b)}
    ELSE LET required_bytes == (b.reader_bit_pos + num_bits + 7) \div 8
         IN IF b.reader_byte_pos + required_bytes > bytes_written(b)
            THEN {UnexpectedEof(b)}
            ELSE {ReadLoop(b, num_bits, Zeros(32))}

\* An alignment that steps to the next byte whatever the bit offset.
align_writer_always(b) ==
    {Ok([b EXCEPT !.writer_byte_pos = @ + 1, !.writer_bit_pos = 0], Unit)}

align_writer(b) ==
    IF b.writer_bit_pos > 0
    THEN {Ok([b EXCEPT !.writer_byte_pos = @ + 1, !.writer_bit_pos = 0], Unit)}
    ELSE {Ok(b, Unit)}

align_reader(b) ==
    IF b.reader_bit_pos > 0
    THEN {Ok([b EXCEPT !.reader_byte_pos = @ + 1, !.reader_bit_pos = 0], Unit)}
    ELSE {Ok(b, Unit)}

reset_reader(b) == {Ok([b EXCEPT !.reader_byte_pos = 0, !.reader_bit_pos = 0], Unit)}

\* A slice that leaves out a byte that is only partly written.
as_slice_whole_bytes(b) ==
    LET end == b.writer_byte_pos
    IN IF end > Len(b.buffer) THEN {Panic(b)} ELSE {Ok(b, SubSeq(b.buffer, 1, end))}

\* &self.buffer[..end] panics when end is past the buffer.
as_slice(b) ==
    LET end == b.writer_byte_pos + (IF b.writer_bit_pos > 0 THEN 1 ELSE 0)
    IN IF end > Len(b.buffer) THEN {Panic(b)} ELSE {Ok(b, SubSeq(b.buffer, 1, end))}

(***************************************************************************)
(* The Packet state machine                                                *)
(***************************************************************************)
Pkt == [bytes |-> bytes, pos |-> pos, len |-> len, cap |-> cap]

NoSession == [kind |-> "none", phase |-> "idle", sent |-> <<>>, got |-> <<>>]

\* Initial capacities: those a first write of any width outgrows or nearly
\* fills, and the largest.
InitCaps == (0..3) \cup {MaxSize}

Init ==
    /\ \E capacity \in InitCaps :
         /\ bytes = new(capacity).bytes
         /\ pos = new(capacity).pos
         /\ len = new(capacity).len
         /\ cap = new(capacity).cap
         /\ last = [op |-> "new", kind |-> "ok", n |-> capacity, grew |-> FALSE]
    /\ ret = Unit
    /\ calls = 0
    /\ rt = NoSession
    /\ buffer = with_capacity(32).buffer
    /\ writer_byte_pos = 0
    /\ writer_bit_pos = 0
    /\ reader_byte_pos = 0
    /\ reader_bit_pos = 0

\* One call: any of its outcomes.  A panic ends the run; the buffer it
\* leaves behind is not observed.
Do(op, n, outs) ==
    \E o \in outs :
         /\ last' = [op |-> op, kind |-> o.kind, n |-> n,
                      grew |-> o.kind # "panic" /\ Len(o.p.bytes) > Len(bytes)]
         /\ ret' = o.ret
         /\ IF o.kind = "panic"
            THEN UNCHANGED pkt_vars
            ELSE /\ bytes' = o.p.bytes
                 /\ pos' = o.p.pos
                 /\ len' = o.p.len
                 /\ cap' = o.p.cap

\* A call can be made while the run has not panicked and the explored
\* number of calls is not exhausted.
CanCall == last.kind # "panic" /\ calls < MaxCalls

Step(op, n, outs) ==
    /\ calls' = calls + 1
    /\ Do(op, n, outs)
    /\ UNCHANGED bit_vars

Call(op, n, outs) ==
    /\ Step(op, n, outs)
    /\ UNCHANGED rt

\* A call whose arguments the properties refer to: a range [start, end), an
\* exponent and a modulus, or a slice.  Outside a session, rt.sent holds the
\* arguments of the last such call.
CallWith(op, args, outs) ==
    /\ Step(op, 0, outs)
    /\ rt' = [NoSession EXCEPT !.sent = args]

\* Arguments explored by the state machine: they keep the stored bytes in
\* {0, 255} and reach both sides of every comparison and overflow.
ByteArgs == {0, 255}
SliceArgs == {<<b>> : b \in ByteArgs} \cup {<<0, 255>>}
SizeArgs == 0..MaxSize
U8Args == {Zeros(8), Ones(8)}
U16Args == {Zeros(16), Ones(16)}
U32Args == {Zeros(32), Ones(32)}
U64Args == {Zeros(64), Ones(64)}
P1Alt1Args == {Bits(127, 8), Bits(128, 8)}
P1Alt3Args == {Bits(128, 64), Bits(129, 64)}
P2AltArgs == {Bits(127, 16), Bits(65408, 16)}
StrArgs == {<<>>, <<0>>}
\* psmart arguments with the number of bytes the call is to write
SmartU16Args == {<<Bits(0, 64), 1>>, <<Bits(255, 64), 2>>, <<Bits(65535, 64), 2>>}
SmartU32Args == {<<Bits(-16384, 64), 2>>, <<Bits(-16129, 64), 2>>, <<Bits(16384, 64), 0>>}
\* cipher keys: four i32 words
KeyArgs == {<<Zeros(32), Zeros(32), Zeros(32), Zeros(32)>>,
            <<Bits(1, 32), Zeros(32), Zeros(32), Zeros(32)>>}
\* [start, end) arguments: one block, one block off the start, less than a
\* block, and end < start
RangeArgs == {<<0, 8>>, <<1, 9>>, <<0, 7>>, <<8, 0>>}
\* <<exponent, modulus>>: cipher texts of one, two and three bytes
RsaArgs == {<<1, 7>>, <<3, 1000>>, <<65537, 40000>>}

Call_g1 ==
    /\ CanCall
    /\ Call("g1", 1, g1(Pkt))

Call_g1s ==
    /\ CanCall
    /\ Call("g1s", 1, g1s(Pkt))

Call_g1_alt1 ==
    /\ CanCall
    /\ Call("g1_alt1", 1, g1_alt1(Pkt))

Call_g1_alt2 ==
    /\ CanCall
    /\ Call("g1_alt2", 1, g1_alt2(Pkt))

Call_g1_alt3 ==
    /\ CanCall
    /\ Call("g1_alt3", 1, g1_alt3(Pkt))

Call_g2 ==
    /\ CanCall
    /\ Call("g2", 2, g2(Pkt))

Call_g2s ==
    /\ CanCall
    /\ Call("g2s", 2, g2s(Pkt))

Call_g2_alt1 ==
    /\ CanCall
    /\ Call("g2_alt1", 2, g2_alt1(Pkt))

Call_g2_alt2 ==
    /\ CanCall
    /\ Call("g2_alt2", 2, g2_alt2(Pkt))

Call_g2_alt3 ==
    /\ CanCall
    /\ Call("g2_alt3", 2, g2_alt3(Pkt))

Call_g3 ==
    /\ CanCall
    /\ Call("g3", 3, g3(Pkt))

Call_g4 ==
    /\ CanCall
    /\ Call("g4", 4, g4(Pkt))

Call_g4s ==
    /\ CanCall
    /\ Call("g4s", 4, g4s(Pkt))

Call_g8 ==
    /\ CanCall
    /\ Call("g8", 8, g8(Pkt))

Call_g8s ==
    /\ CanCall
    /\ Call("g8s", 8, g8s(Pkt))

Call_gsmart_u16 ==
    /\ CanCall
    /\ Call("gsmart_u16", 0, gsmart_u16(Pkt))

Call_gsmart_u32 ==
    /\ CanCall
    /\ Call("gsmart_u32", 0, gsmart_u32(Pkt))

Call_gjstr ==
    /\ CanCall
    /\ Call("gjstr", 0, gjstr(Pkt))

Call_gdata ==
    /\ CanCall
    /\ \E n \in SizeArgs : Call("gdata", n, gdata(Pkt, n))

Call_p1 ==
    /\ CanCall
    /\ \E v \in U8Args : Call("p1", 1, p1(Pkt, v))

Call_p1s ==
    /\ CanCall
    /\ \E v \in U8Args : Call("p1s", 1, p1s(Pkt, v))

Call_p1_alt1 ==
    /\ CanCall
    /\ \E v \in P1Alt1Args : Call("p1_alt1", 1, p1_alt1(Pkt, v))

Call_p1_alt2 ==
    /\ CanCall
    /\ \E v \in U8Args : Call("p1_alt2", 1, p1_alt2(Pkt, v))

Call_p1_alt3 ==
    /\ CanCall
    /\ \E v \in P1Alt3Args : Call("p1_alt3", 1, p1_alt3(Pkt, v))

Call_p2 ==
    /\ CanCall
    /\ \E v \in U16Args : Call("p2", 2, p2(Pkt, v))

Call_p2s ==
    /\ CanCall
    /\ \E v \in U16Args : Call("p2s", 2, p2s(Pkt, v))

Call_p2_alt1 ==
    /\ CanCall
    /\ \E v \in U16Args : Call("p2_alt1", 2, p2_alt1(Pkt, v))

Call_p2_alt2 ==
    /\ CanCall
    /\ \E v \in P2AltArgs : Call("p2_alt2", 2, p2_alt2(Pkt, v))

Call_p2_alt3 ==
    /\ CanCall
    /\ \E v \in P2AltArgs : Call("p2_alt3", 2, p2_alt3(Pkt, v))

Call_p3 ==
    /\ CanCall
    /\ \E v \in U32Args : Call("p3", 3, p3(Pkt, v))

Call_p4 ==
    /\ CanCall
    /\ \E v \in U32Args : Call("p4", 4, p4(Pkt, v))

Call_p4s ==
    /\ CanCall
    /\ \E v \in U32Args : Call("p4s", 4, p4s(Pkt, v))

Call_p8 ==
    /\ CanCall
    /\ \E v \in U64Args : Call("p8", 8, p8(Pkt, v))

Call_pjstr ==
    /\ CanCall
    /\ \E s \in StrArgs : Call("pjstr", Len(s) + 1, pjstr(Pkt, s))

Call_gjstr2 ==
    /\ CanCall
    /\ \E s \in StrArgs : Call("gjstr2", Len(s) + 2, gjstr2(Pkt, s))

Call_psmart_u16 ==
    /\ CanCall
    /\ \E a \in SmartU16Args : Call("psmart_u16", a[2], psmart_u16(Pkt, a[1]))

Call_psmart_u32 ==
    /\ CanCall
    /\ \E a \in SmartU32Args : Call("psmart_u32", a[2], psmart_u32(Pkt, a[1]))

Call_pdata ==
    /\ CanCall
    /\ \E d \in SliceArgs : Call("pdata", 0, pdata(Pkt, d))

Call_set_pos ==
    /\ CanCall
    /\ \E i \in SizeArgs : Call("set_pos", i, set_pos(Pkt, i))

Call_skip ==
    /\ CanCall
    /\ \E n \in SizeArgs : Call("skip", 0, skip(Pkt, n))

Call_clear ==
    /\ CanCall
    /\ Call("clear", 0, clear(Pkt))

Call_set_len ==
    /\ CanCall
    /\ \E n \in SizeArgs : Call("set_len", 0, set_len(Pkt, n))

Call_append_slice ==
    /\ CanCall
    /\ \E s \in SliceArgs : CallWith("append_slice", s, append_slice(Pkt, s))

Call_compact ==
    /\ CanCall
    /\ Call("compact", 0, compact(Pkt))

Call_tiny_key_encrypt ==
    /\ CanCall
    /\ \E key \in KeyArgs : Call("tiny_key_encrypt", 0, tiny_key_encrypt(Pkt, key))

Call_tiny_key_decrypt ==
    /\ CanCall
    /\ \E key \in KeyArgs : Call("tiny_key_decrypt", 0, tiny_key_decrypt(Pkt, key))

Call_tiny_key_encrypt_range ==
    /\ CanCall
    /\ \E key \in KeyArgs, r \in RangeArgs : 
         CallWith("tiny_key_encrypt_range", r, tiny_key_encrypt_range(Pkt, key, r[1], r[2]))

Call_tiny_key_decrypt_range ==
    /\ CanCall
    /\ \E key \in KeyArgs, r \in RangeArgs : 
         CallWith("tiny_key_decrypt_range", r, tiny_key_decrypt_range(Pkt, key, r[1], r[2]))

Call_rsa_encrypt ==
    /\ CanCall
    /\ \E k \in RsaArgs : CallWith("rsa_encrypt", k, rsa_encrypt(Pkt, k[1], k[2]))

Reads ==
    \/ Call_g1 \/ Call_g1s \/ Call_g1_alt1 \/ Call_g1_alt2 \/ Call_g1_alt3
    \/ Call_g2 \/ Call_g2s \/ Call_g2_alt1 \/ Call_g2_alt2 \/ Call_g2_alt3
    \/ Call_g3 \/ Call_g4 \/ Call_g4s \/ Call_g8 \/ Call_g8s
    \/ Call_gsmart_u16 \/ Call_gsmart_u32 \/ Call_gjstr \/ Call_gdata

Writes ==
    \/ Call_p1 \/ Call_p1s \/ Call_p1_alt1 \/ Call_p1_alt2 \/ Call_p1_alt3
    \/ Call_p2 \/ Call_p2s \/ Call_p2_alt1 \/ Call_p2_alt2 \/ Call_p2_alt3
    \/ Call_p3 \/ Call_p4 \/ Call_p4s \/ Call_p8
    \/ Call_pjstr \/ Call_gjstr2 \/ Call_psmart_u16 \/ Call_psmart_u32 \/ Call_pdata

Moves ==
    \/ Call_set_pos \/ Call_skip \/ Call_clear \/ Call_set_len
    \/ Call_append_slice \/ Call_compact

Ciphers ==
    \/ Call_tiny_key_encrypt \/ Call_tiny_key_decrypt
    \/ Call_tiny_key_encrypt_range \/ Call_tiny_key_decrypt_range

\* Every public operation that reads, writes or moves the cursor.
Next == Reads \/ Writes \/ Moves

Spec == Init /\ [][Next]_vars

\* The operations that can return Err, with the writes and moves that set up
\* their inputs.
Fallible ==
    \/ Call_g1 \/ Call_g1s \/ Call_g2 \/ Call_g2s \/ Call_g4 \/ Call_g4s
    \/ Call_g8 \/ Call_g8s \/ Call_gsmart_u16 \/ Call_gsmart_u32 \/ Call_gjstr
    \/ Call_set_pos

NextCipher ==
    \/ Fallible \/ Ciphers \/ Call_rsa_encrypt
    \/ Call_p1 \/ Call_p8 \/ Call_skip \/ Call_set_len \/ Call_append_slice

SpecCipher == Init /\ [][NextCipher]_vars

(***************************************************************************)
(* Fixed-width round trips: write N values into a fresh packet,            *)
(* set_pos(0), read N values back                                          *)
(***************************************************************************)
\* The write/read pairs, named by the type that travels.
Kinds == {"u8", "i8", "u16", "i16", "u24", "u32", "i32", "u64", "i64"}

Width(kind) ==
    CASE kind \in {"u8", "i8"} -> 1
      [] kind \in {"u16", "i16"} -> 2
      [] kind = "u24" -> 3
      [] kind \in {"u32", "i32"} -> 4
      [] kind \in {"u64", "i64"} -> 8

Signed(kind) == kind \in {"i8", "i16", "i32", "i64"}

\* 0, max and min of the type, as the argument the write takes (p3 takes a
\* u32 of which it stores the low 24 bits).
Boundary(kind) ==
    LET w == 8 * Width(kind)
        vals == IF Signed(kind)
                THEN {Zeros(w), <<0>> \o Ones(w - 1), <<1>> \o Zeros(w - 1)}
                ELSE {Zeros(w), Ones(w)}
    IN IF kind = "u24" THEN {ZeroExt(v, 32) : v \in vals} ELSE vals

Put(kind, p, v) ==
    CASE kind = "u8" -> p1(p, v)
      [] kind = "i8" -> p1s(p, v)
      [] kind = "u16" -> p2(p, v)
      [] kind = "i16" -> p2s(p, v)
      [] kind = "u24" -> p3(p, v)
      [] kind = "u32" -> p4(p, v)
      [] kind = "i32" -> p4s(p, v)
      [] kind \in {"u64", "i64"} -> p8(p, v)

Get(kind, p) ==
    CASE kind = "u8" -> g1(p)
      [] kind = "i8" -> g1s(p)
      [] kind = "u16" -> g2(p)
      [] kind = "i16" -> g2s(p)
      [] kind = "u24" -> g3(p)
      [] kind = "u32" -> g4(p)
      [] kind = "i32" -> g4s(p)
      [] kind = "u64" -> g8(p)
      [] kind = "i64" -> g8s(p)

\* The value a read returns for a written v: g3 returns a u64.
Expected(kind, v) == IF kind = "u24" THEN ZeroExt(v, 64) ELSE v

InitRT ==
    /\ \E capacity \in InitCaps :
         /\ bytes = new(capacity).bytes
         /\ pos = new(capacity).pos
         /\ len = new(capacity).len
         /\ cap = new(capacity).cap
         /\ last = [op |-> "new", kind |-> "ok", n |-> capacity, grew |-> FALSE]
    /\ ret = Unit
    /\ calls = 0
    /\ \E kind \in Kinds :
         rt = [kind |-> kind, phase |-> "write", sent |-> <<>>, got |-> <<>>]
    /\ buffer = with_capacity(32).buffer
    /\ writer_byte_pos = 0
    /\ writer_bit_pos = 0
    /\ reader_byte_pos = 0
    /\ reader_bit_pos = 0

RT_put ==
    /\ last.kind = "ok"
    /\ rt.phase = "write"
    /\ Len(rt.sent) < MaxValues
    /\ \E v \in Boundary(rt.kind) :
         /\ Step("put", Width(rt.kind), Put(rt.kind, Pkt, v))
         /\ rt' = [rt EXCEPT !.sent = Append(@, v)]

RT_set_pos ==
    /\ last.kind = "ok"
    /\ rt.phase = "write"
    /\ Step("set_pos", 0, set_pos(Pkt, 0))
    /\ rt' = [rt EXCEPT !.phase = "read"]

RT_get ==
    /\ last.kind = "ok"
    /\ rt.phase = "read"
    /\ Len(rt.got) < Len(rt.sent)
    /\ Step("get", Width(rt.kind), Get(rt.kind, Pkt))
    /\ rt' = [rt EXCEPT !.got = Append(@, ret')]

NextRT == RT_put \/ RT_set_pos \/ RT_get

SpecRT == InitRT /\ [][NextRT]_vars

(***************************************************************************)
(* The PacketBit state machine                                             *)
(***************************************************************************)
BitPkt ==
    [writer_byte_pos |-> writer_byte_pos, writer_bit_pos |-> writer_bit_pos,
     reader_byte_pos |-> reader_byte_pos, reader_bit_pos |-> reader_bit_pos,
     buffer |-> buffer]

\* Capacities for with_capacity and contents for from_bytes.
BitCaps == {0, 1, 2, 4}
BitData == {<<>>, <<255>>, <<165, 90>>}

\* The fields of the crate's test, a 5-bit field, and fields of 31 and 32
\* bits with every bit set.
FieldArgs ==
    {<<Bits(2, 32), 3>>, <<Bits(100, 32), 8>>, <<Bits(0, 32), 1>>, <<Bits(2000, 32), 16>>,
     <<Bits(21, 32), 5>>, <<BIT_MASKS(31), 31>>, <<Ones(32), 32>>}
InvalidWidths == {0, 33}
ReadWidths == {f[2] : f \in FieldArgs} \cup InvalidWidths

\* The Packet of a run that exercises a PacketBit is not touched.
InitBits ==
    /\ bytes = new(0).bytes
    /\ pos = 0
    /\ len = 0
    /\ cap = 0
    /\ ret = Unit
    /\ calls = 0
    /\ rt = NoSession
    /\ \E c \in {[op |-> "with_capacity", b |-> with_capacity(capacity)] :
                     capacity \in BitCaps}
               \cup {[op |-> "from_bytes", b |-> from_bytes(data)] : data \in BitData} :
         /\ buffer = c.b.buffer
         /\ writer_byte_pos = c.b.writer_byte_pos
         /\ writer_bit_pos = c.b.writer_bit_pos
         /\ reader_byte_pos = c.b.reader_byte_pos
         /\ reader_bit_pos = c.b.reader_bit_pos
         /\ last = [op |-> c.op, kind |-> "ok", n |-> Len(c.b.buffer), grew |-> FALSE]

\* One call on the PacketBit: any of its outcomes.  A panic or a call that
\* does not return ends the run.
DoBit(op, n, outs) ==
    \E o \in outs :
         /\ last' = [op |-> op, kind |-> o.kind, n |-> n,
                     grew |-> Len(o.p.buffer) > Len(buffer)]
         /\ ret' = o.ret
         /\ calls' = calls + 1
         /\ IF o.kind \in {"panic", "hang"}
            THEN UNCHANGED bit_vars
            ELSE /\ buffer' = o.p.buffer
                 /\ writer_byte_pos' = o.p.writer_byte_pos
                 /\ writer_bit_pos' = o.p.writer_bit_pos
                 /\ reader_byte_pos' = o.p.reader_byte_pos
                 /\ reader_bit_pos' = o.p.reader_bit_pos
         /\ UNCHANGED pkt_vars

CanCallBit == last.kind \notin {"panic", "hang"} /\ calls < MaxBitCalls

Bit_write_bits ==
    /\ CanCallBit
    /\ \E f \in FieldArgs \cup {<<Ones(32), n>> : n \in InvalidWidths} :
         DoBit("write_bits", f[2], write_bits(BitPkt, f[1], f[2]))
    /\ UNCHANGED rt

Bit_read_bits ==
    /\ CanCallBit
    /\ \E n \in ReadWidths : DoBit("read_bits", n, read_bits(BitPkt, n))
    /\ UNCHANGED rt

Bit_align_writer ==
    /\ CanCallBit
    /\ DoBit("align_writer", 0, align_writer(BitPkt))
    /\ UNCHANGED rt

Bit_align_reader ==
    /\ CanCallBit
    /\ DoBit("align_reader", 0, align_reader(BitPkt))
    /\ UNCHANGED rt

Bit_reset_reader ==
    /\ CanCallBit
    /\ DoBit("reset_reader", 0, reset_reader(BitPkt))
    /\ UNCHANGED rt

NextBits ==
    \/ Bit_write_bits \/ Bit_read_bits
    \/ Bit_align_writer \/ Bit_align_reader \/ Bit_reset_reader

SpecBits == InitBits /\ [][NextBits]_vars

(***************************************************************************)
(* Bit round trips: write fields into a PacketBit::with_capacity(c), then  *)
(* read the same widths in the same order                                  *)
(***************************************************************************)
InitBitsRT ==
    /\ bytes = new(0).bytes
    /\ pos = 0
    /\ len = 0
    /\ cap = 0
    /\ ret = Unit
    /\ calls = 0
    /\ rt = [kind |-> "bits", phase |-> "write", sent |-> <<>>, got |-> <<>>]
    /\ \E capacity \in BitCaps :
         /\ buffer = with_capacity(capacity).buffer
         /\ last = [op |-> "with_capacity", kind |-> "ok", n |-> capacity, grew |-> FALSE]
    /\ writer_byte_pos = 0
    /\ writer_bit_pos = 0
    /\ reader_byte_pos = 0
    /\ reader_bit_pos = 0

BitRT_write ==
    /\ last.kind = "ok"
    /\ rt.phase = "write"
    /\ Len(rt.sent) < MaxFields
    /\ \E f \in FieldArgs :
         /\ DoBit("write_bits", f[2], write_bits(BitPkt, f[1], f[2]))
         /\ rt' = [rt EXCEPT !.sent = Append(@, f)]

\* The writer is done: the reads start, from the position the writes
\* started from.
BitRT_turn ==
    /\ last.kind = "ok"
    /\ rt.phase = "write"
    /\ rt' = [rt EXCEPT !.phase = "read"]
    /\ UNCHANGED <<pkt_vars, bit_vars, last, ret, calls>>

BitRT_read ==
    /\ last.kind = "ok"
    /\ rt.phase = "read"
    /\ Len(rt.got) < Len(rt.sent)
    /\ DoBit("read_bits", rt.sent[Len(rt.got) + 1][2],
             read_bits(BitPkt, rt.sent[Len(rt.got) + 1][2]))
    /\ rt' = [rt EXCEPT !.got = Append(@, ret')]

NextBitsRT == BitRT_write \/ BitRT_turn \/ BitRT_read

SpecBitsRT == InitBitsRT /\ [][NextBitsRT]_vars

(***************************************************************************)
(* Aligned round trips: write fields into a PacketBit::with_capacity(c),   *)
(* aligning the writer between them, then replay the same widths and the   *)
(* same alignments on the reader                                           *)
(***************************************************************************)
\* Fields that end inside a byte, fill a byte and fill two bytes.
AlignFields == {<<Bits(5, 32), 3>>, <<Bits(165, 32), 8>>, <<Bits(2000, 32), 16>>}

\* An alignment in the sequence of the writer's calls: no field has width 0.
AlignMark == <<Zeros(32), 0>>

InitAlign ==
    /\ bytes = new(0).bytes
    /\ pos = 0
    /\ len = 0
    /\ cap = 0
    /\ ret = Unit
    /\ calls = 0
    /\ rt = [kind |-> "align", phase |-> "write", sent |-> <<>>, got |-> <<>>]
    /\ \E capacity \in BitCaps :
         /\ buffer = with_capacity(capacity).buffer
         /\ last = [op |-> "with_capacity", kind |-> "ok", n |-> capacity, grew |-> FALSE]
    /\ writer_byte_pos = 0
    /\ writer_bit_pos = 0
    /\ reader_byte_pos = 0
    /\ reader_bit_pos = 0

Align_write_bits ==
    /\ last.kind = "ok"
    /\ rt.phase = "write"
    /\ Len(rt.sent) < MaxFields
    /\ \E f \in AlignFields :
         /\ DoBit("write_bits", f[2], write_bits(BitPkt, f[1], f[2]))
         /\ rt' = [rt EXCEPT !.sent = Append(@, f)]

Align_align_writer ==
    /\ last.kind = "ok"
    /\ rt.phase = "write"
    /\ Len(rt.sent) < MaxFields
    /\ DoBit("align_writer", 0, align_writer(BitPkt))
    /\ rt' = [rt EXCEPT !.sent = Append(@, AlignMark)]

Align_read_bits ==
    /\ last.kind = "ok"
    /\ rt.phase = "read"
    /\ Len(rt.got) < Len(rt.sent)
    /\ rt.sent[Len(rt.got) + 1] # AlignMark
    /\ DoBit("read_bits", rt.sent[Len(rt.got) + 1][2],
             read_bits(BitPkt, rt.sent[Len(rt.got) + 1][2]))
    /\ rt' = [rt EXCEPT !.got = Append(@, ret')]

Align_align_reader ==
    /\ last.kind = "ok"
    /\ rt.phase = "read"
    /\ Len(rt.got) < Len(rt.sent)
    /\ rt.sent[Len(rt.got) + 1] = AlignMark
    /\ DoBit("align_reader", 0, align_reader(BitPkt))
    /\ rt' = [rt EXCEPT !.got = Append(@, ret')]

NextAlign ==
    \/ Align_write_bits \/ Align_align_writer \/ BitRT_turn
    \/ Align_read_bits \/ Align_align_reader

SpecAlign == InitAlign /\ [][NextAlign]_vars

(***************************************************************************)
(* Cipher round trips: Packet::from(contents), encrypt, decrypt with the   *)
(* same key (and the same range)                                           *)
(***************************************************************************)
\* 8-byte blocks: all zero, all set, mixed words, and bytes that are all
\* different.
BlockArgs ==
    {Zeros(8), SubSeq([i \in 1..8 |-> 255], 1, 8),
     <<0, 0, 0, 0, 255, 255, 255, 255>>, <<1, 2, 3, 4, 5, 6, 7, 8>>}

RECURSIVE Contents(_)
Contents(n) ==
    IF n = 0 THEN {<<>>} ELSE {c \o b : c \in Contents(n - 1), b \in BlockArgs}

\* [start, end) within contents of n bytes: every block-aligned range and
\* the ranges of whole blocks set off by half a block.
CipherRanges(n) ==
    {r \in (0..n) \X (0..n) :
        /\ r[1] < r[2]
        /\ (r[2] - r[1]) % 8 = 0
        /\ r[1] % 4 = 0}

InitCipherRT ==
    /\ \E n \in 1..MaxBlocks, key \in KeyArgs :
         \E c \in Contents(n) :
            /\ bytes = from(c).bytes
            /\ pos = from(c).pos
            /\ len = from(c).len
            /\ cap = from(c).cap
            /\ last = [op |-> "from", kind |-> "ok", n |-> Len(c), grew |-> FALSE]
            /\ \/ rt = [kind |-> "whole", phase |-> "encrypt",
                         sent |-> <<c, key, <<0, Len(c)>> >>, got |-> <<>>]
               \/ \E r \in CipherRanges(Len(c)) :
                    rt = [kind |-> "range", phase |-> "encrypt",
                          sent |-> <<c, key, r>>, got |-> <<>>]
    /\ ret = Unit
    /\ calls = 0
    /\ buffer = with_capacity(32).buffer
    /\ writer_byte_pos = 0
    /\ writer_bit_pos = 0
    /\ reader_byte_pos = 0
    /\ reader_bit_pos = 0

CRT_encrypt ==
    /\ last.kind = "ok"
    /\ rt.phase = "encrypt"
    /\ IF rt.kind = "whole"
       THEN Step("tiny_key_encrypt", 0, tiny_key_encrypt(Pkt, rt.sent[2]))
       ELSE Step("tiny_key_encrypt_range", 0,
                 tiny_key_encrypt_range(Pkt, rt.sent[2], rt.sent[3][1], rt.sent[3][2]))
    /\ rt' = [rt EXCEPT !.phase = "decrypt", !.got = <<bytes'>>]

CRT_decrypt ==
    /\ last.kind = "ok"
    /\ rt.phase = "decrypt"
    /\ IF rt.kind = "whole"
       THEN Step("tiny_key_decrypt", 0, tiny_key_decrypt(Pkt, rt.sent[2]))
       ELSE Step("tiny_key_decrypt_range", 0,
                 tiny_key_decrypt_range(Pkt, rt.sent[2], rt.sent[3][1], rt.sent[3][2]))
    /\ rt' = [rt EXCEPT !.phase = "done"]

NextCipherRT == CRT_encrypt \/ CRT_decrypt

SpecCipherRT == InitCipherRT /\ [][NextCipherRT]_vars

(***************************************************************************)
(* Encoded round trips: write values with one of the encoding writers into *)
(* a fresh packet, set_pos(0), read them back with the matching reader     *)
(***************************************************************************)
SmartKinds == {"smart_u16", "smart_u32"}
AltKinds == {"p1_alt1", "p1_alt2", "p1_alt3", "p2_alt1", "p2_alt2", "p2_alt3"}
CodecKinds == SmartKinds \cup AltKinds \cup {"jstr"}

\* "", "a" and "hello"
StrSamples == {<<>>, <<97>>, <<104, 101, 108, 108, 111>>}

\* The values written, as the argument the writer takes: the ends of the
\* declared domain, both sides of the compact/extended thresholds, and for
\* the alt writers both sides of 128 and a value above one byte.
Samples(kind) ==
    CASE kind = "smart_u16" -> {Bits(v, 64) : v \in {0, 127, 128, 32767}}
      [] kind = "smart_u32" -> {Bits(v, 64) : v \in {0, 20, 16383, 16384, 2147483647}}
      [] kind = "jstr" -> StrSamples
      [] kind \in {"p1_alt1", "p1_alt2"} -> {Bits(v, 8) : v \in {0, 127, 128, 255}}
      [] kind = "p1_alt3" -> {Bits(v, 64) : v \in {0, 127, 128, 255}}
      [] kind \in {"p2_alt1", "p2_alt2", "p2_alt3"} ->
            {Bits(v, 16) : v \in {0, 10, 127, 128, 256, 65535}}

Encode(kind, p, v) ==
    CASE kind = "smart_u16" -> psmart_u16(p, v)
      [] kind = "smart_u32" -> psmart_u32(p, v)
      [] kind = "jstr" -> pjstr(p, v)
      [] kind = "p1_alt1" -> p1_alt1(p, v)
      [] kind = "p1_alt2" -> p1_alt2(p, v)
      [] kind = "p1_alt3" -> p1_alt3(p, v)
      [] kind = "p2_alt1" -> p2_alt1(p, v)
      [] kind = "p2_alt2" -> p2_alt2(p, v)
      [] kind = "p2_alt3" -> p2_alt3(p, v)

Decode(kind, p) ==
    CASE kind = "smart_u16" -> gsmart_u16(p)
      [] kind = "smart_u32" -> gsmart_u32(p)
      [] kind = "jstr" -> gjstr(p)
      [] kind = "p1_alt1" -> g1_alt1(p)
      [] kind = "p1_alt2" -> g1_alt2(p)
      [] kind = "p1_alt3" -> g1_alt3(p)
      [] kind = "p2_alt1" -> g2_alt1(p)
      [] kind = "p2_alt2" -> g2_alt2(p)
      [] kind = "p2_alt3" -> g2_alt3(p)

\* The written value in the type the reader returns: gsmart_u32 returns a
\* u32 and g1_alt3 a u8 where the writers take isize and usize.
Decoded(kind, v) ==
    CASE kind = "smart_u32" -> Trunc(v, 32)
      [] kind = "p1_alt3" -> Trunc(v, 8)
      [] OTHER -> v

\* Initial capacities: those of the fixed-width round trips and |s| + 1 for
\* every string written.
CodecCaps == InitCaps \cup {Len(str) + 1 : str \in StrSamples}

InitCodec ==
    /\ \E capacity \in CodecCaps :
         /\ bytes = new(capacity).bytes
         /\ pos = new(capacity).pos
         /\ len = new(capacity).len
         /\ cap = new(capacity).cap
         /\ last = [op |-> "new", kind |-> "ok", n |-> capacity, grew |-> FALSE]
    /\ ret = Unit
    /\ calls = 0
    /\ \E kind \in CodecKinds :
         rt = [kind |-> kind, phase |-> "write", sent |-> <<>>, got |-> <<>>]
    /\ buffer = with_capacity(32).buffer
    /\ writer_byte_pos = 0
    /\ writer_bit_pos = 0
    /\ reader_byte_pos = 0
    /\ reader_bit_pos = 0

\* A write; the session keeps the value, the cursor before and after the
\* call, and the length of the storage before it.
Codec_put ==
    /\ last.kind = "ok"
    /\ rt.phase = "write"
    /\ Len(rt.sent) < MaxValues
    /\ \E v \in Samples(rt.kind) :
         /\ Step("put", 0, Encode(rt.kind, Pkt, v))
         /\ rt' = [rt EXCEPT !.sent = Append(@, [v |-> v, from |-> pos, to |-> pos',
                                                 room |-> Len(bytes)])]

Codec_set_pos ==
    /\ last.kind = "ok"
    /\ rt.phase = "write"
    /\ rt.sent # <<>>
    /\ Step("set_pos", 0, set_pos(Pkt, 0))
    /\ rt' = [rt EXCEPT !.phase = "read"]

Codec_get ==
    /\ last.kind = "ok"
    /\ rt.phase = "read"
    /\ Len(rt.got) < Len(rt.sent)
    /\ Step("get", 0, Decode(rt.kind, Pkt))
    /\ rt' = [rt EXCEPT !.got = Append(@, [v |-> ret', from |-> pos, to |-> pos'])]

NextCodec == Codec_put \/ Codec_set_pos \/ Codec_get

SpecCodec == InitCodec /\ [][NextCodec]_vars

(***************************************************************************)
(* Properties of Packet                                                    *)
(***************************************************************************)
\* C1: after any sequence of public Packet operations starting from
\* Packet::new(c), the cursor and the extent satisfy
\* 0 <= pos <= len <= bytes.len().
C1_CursorWithinExtent == 0 <= pos /\ pos <= len /\ len <= Len(bytes)

\* C2: for every width (1, 2, 3, 4, 8 bytes) and signedness, writing N
\* values (0, max and min of the type among them) into a fresh packet of any
\* initial capacity, calling set_pos(0) and reading N values back returns
\* the same values in the same order: every call of the round trip
\* completes and the i-th value read is the i-th value written.
C2_RoundTrip ==
    rt.kind # "none" =>
        /\ last.kind = "ok"
        /\ \A i \in 1..Len(rt.got) : rt.got[i] = Expected(rt.kind, rt.sent[i])

FixedReads == {"g1", "g1s", "g2", "g2s", "g3", "g4", "g4s", "g8", "g8s"}

\* C3: a fixed-width read (g1, g1s, g2, g2s, g3, g4, g4s, g8, g8s) called
\* where pos + width > len fails with an error and leaves pos unchanged;
\* called where pos + width <= len it succeeds and advances pos by exactly
\* width.
C3_FixedReadBounds ==
    [][(calls' = calls + 1 /\ last'.op \in FixedReads) =>
          IF pos + last'.n > len
          THEN last'.kind = "err" /\ pos' = pos
          ELSE last'.kind = "ok" /\ pos' = pos + last'.n]_vars

FixedWrites == {"p1", "p1s", "p2", "p2s", "p3", "p4", "p4s", "p8"}

\* C4: every fixed-width write (p1, p1s, p2, p2s, p3, p4, p4s, p8) of width
\* w, from any reachable state and whatever the relation between the
\* storage's capacity and its length, completes without an out-of-range
\* access: the storage is grown to pos + w when it is shorter, pos advances
\* by w and afterwards len >= pos.
C4_FixedWriteCompletes ==
    [][(calls' = calls + 1 /\ last'.op \in FixedWrites) =>
          /\ last'.kind = "ok"
          /\ Len(bytes') >= pos + last'.n
          /\ pos' = pos + last'.n
          /\ len' >= pos']_vars

\* The writes at the cursor; last.n is the number of bytes they request.
CursorWrites ==
    FixedWrites \cup {"p1_alt1", "p1_alt2", "p1_alt3", "p2_alt1", "p2_alt2", "p2_alt3",
                      "pjstr", "gjstr2", "psmart_u16", "psmart_u32"}

C6_ErrLeavesPacket ==
    [][(calls' = calls + 1 /\ last'.kind = "err") =>
          pos' = pos /\ len' = len /\ bytes' = bytes]_vars

ReadOps ==
    FixedReads \cup {"g1_alt1", "g1_alt2", "g1_alt3", "g2_alt1", "g2_alt2", "g2_alt3",
                     "gsmart_u16", "gsmart_u32", "gjstr", "gdata"}

\* C7: for any buffer contents and any pos <= len, every Packet read
\* (g1_alt1/2/3, g2_alt1/2/3, g3, gsmart_u16, gsmart_u32, gjstr, gdata and
\* the macro-based reads) returns a value or Err; none aborts through an
\* out-of-range index or an arithmetic overflow, also when fewer bytes remain
\* than the read consumes.
C7_ReadsDoNotAbort ==
    [][(calls' = calls + 1 /\ last'.op \in ReadOps /\ pos <= len) =>
          last'.kind # "panic"]_vars

(***************************************************************************)
(* Properties of PacketBit                                                 *)
(***************************************************************************)
\* C8: for any sequence of fields (v_i, n_i) with 1 <= n_i <= 32 and
\* v_i < 2^n_i written with write_bits, starting at any writer bit offset
\* 0..7, reading the same widths in the same order with read_bits from the
\* same starting position returns exactly v_i for every i: every read of the
\* round trip succeeds and the i-th value read is the i-th value written.
C8_BitRoundTrip ==
    rt.kind = "bits" =>
        /\ (last.op = "read_bits" => last.kind = "ok")
        /\ \A i \in 1..Len(rt.got) : rt.got[i] = rt.sent[i][1]

\* The fields (2,3), (100,8), (0,1), (2000,16) were written and the reads of
\* 3, 8, 1 and 16 bits returned 2, 100, 0 and 2000.
C8_Witness ==
    /\ rt.kind = "bits"
    /\ rt.sent = <<<<Bits(2, 32), 3>>, <<Bits(100, 32), 8>>,
                   <<Bits(0, 32), 1>>, <<Bits(2000, 32), 16>>>>
    /\ rt.got = <<Bits(2, 32), Bits(100, 32), Bits(0, 32), Bits(2000, 32)>>

\* C9: read_bits(n) with valid n, called when bits_read() + n >
\* bits_written() (the request reaches past the last written bit, even inside
\* a partially written final byte), returns UnexpectedEof and leaves the
\* reader byte index and bit offset unchanged.
C9_ReadPastWrittenBits ==
    [][(calls' = calls + 1 /\ last'.op = "read_bits" /\ ~InvalidBits(last'.n)
        /\ bits_read(BitPkt) + last'.n > bits_written(BitPkt)) =>
          /\ last'.kind = "unexpected_eof"
          /\ reader_byte_pos' = reader_byte_pos
          /\ reader_bit_pos' = reader_bit_pos]_vars

\* C10: write_bits(value, n) and read_bits(n) called with n = 0 or n > 32
\* return an invalid-argument error and leave the reader cursor, the writer
\* cursor, the buffer contents and the buffer capacity unchanged.
C10_InvalidWidth ==
    [][(calls' = calls + 1 /\ last'.op \in {"write_bits", "read_bits"}
        /\ (last'.n = 0 \/ last'.n > 32)) =>
          /\ last'.kind = "invalid_input"
          /\ UNCHANGED bit_vars]_vars

\* A write of 0 bits was refused on a PacketBit that holds a partly written
\* byte.
C10_Witness ==
    /\ last.op = "write_bits" /\ last.n = 0 /\ last.kind = "invalid_input"
    /\ writer_bit_pos > 0

\* C11: for every key and every Packet whose written contents are a whole
\* number of 8-byte blocks, the encryption and the decryption with the same
\* key (over the whole contents, or over the same range) both succeed, and
\* after the decryption the bytes are the original bytes.
C11_CipherRoundTrip ==
    rt.kind \in {"whole", "range"} =>
        /\ last.kind = "ok"
        /\ rt.phase = "done" => bytes = rt.sent[1]

\* C12: a call of tiny_key_encrypt_range or tiny_key_decrypt_range with
\* start <= end <= len returns having modified only bytes in
\* [start, start + 8 * floor((end - start) / 8)): every byte before start and
\* every byte from that bound onward is unchanged, and pos and len are what
\* they were before the call.
RangeOps == {"tiny_key_encrypt_range", "tiny_key_decrypt_range"}

C12_RangeFrame ==
    [][(/\ last'.op \in RangeOps
        /\ rt'.sent[1] <= rt'.sent[2]
        /\ rt'.sent[2] <= len)
       => /\ last'.kind = "ok"
          /\ pos' = pos
          /\ len' = len
          /\ Len(bytes') = Len(bytes)
          /\ \A i \in 1..Len(bytes) :
                (i <= rt'.sent[1]
                 \/ i > rt'.sent[1] + 8 * ((rt'.sent[2] - rt'.sent[1]) \div 8))
                => bytes'[i] = bytes[i]]_vars

\* The i-th value written was read back from the position it was written
\* at: the read returned it and consumed exactly the bytes the write
\* produced.
ReadBack(i) ==
    rt.got[i].from = rt.sent[i].from =>
        /\ rt.got[i].v = Decoded(rt.kind, rt.sent[i].v)
        /\ rt.got[i].to = rt.sent[i].to

\* C13: for every v in 0..=32767, psmart_u16(v) followed by gsmart_u16 from
\* the same start position returns v, and for every v in 0..=2^31-1,
\* psmart_u32(v) followed by gsmart_u32 returns v; the read consumes exactly
\* the bytes the write produced.
C13_SmartRoundTrip ==
    rt.kind \in SmartKinds =>
        /\ last.kind = "ok"
        /\ \A i \in 1..Len(rt.got) : ReadBack(i)

\* The values at the compact/extended thresholds with the number of bytes
\* their encoding takes.
SmartThresholds ==
    {<<"smart_u16", 127, 1>>, <<"smart_u16", 128, 2>>,
     <<"smart_u32", 16383, 2>>, <<"smart_u32", 16384, 4>>}

\* C14: psmart_u16(127) advances pos by 1 and psmart_u16(128) by 2;
\* psmart_u32(16383) advances pos by 2 and psmart_u32(16384) by 4; each of
\* these four values is returned unchanged by the matching gsmart read.
C14_SmartThreshold ==
    \A t \in SmartThresholds, i \in 1..Len(rt.sent) :
        (rt.kind = t[1] /\ rt.sent[i].v = Bits(t[2], 64)) =>
            /\ rt.sent[i].to = rt.sent[i].from + t[3]
            /\ i <= Len(rt.got) => (last.kind = "ok" /\ ReadBack(i))

\* C15: for a string s of non-zero ASCII characters, pjstr(s) into a fresh
\* Packet of capacity |s| + 1 stores the bytes of s followed by exactly one
\* 0x00 byte and advances pos by |s| + 1; after set_pos(0), gjstr returns s
\* and leaves pos at |s| + 1, one past the terminator.
C15_StringRoundTrip ==
    (/\ rt.kind = "jstr"
     /\ Len(rt.sent) = 1
     /\ rt.sent[1].room = Len(rt.sent[1].v) + 1)
    => LET s == rt.sent[1].v
       IN /\ last.kind = "ok"
          /\ rt.sent[1].to = Len(s) + 1
          /\ bytes = s \o <<0>>
          /\ Len(rt.got) = 1 => (rt.got[1].v = s /\ pos = Len(s) + 1)

\* "hello" written into a 6-byte packet has been read back.
C15_Witness ==
    /\ rt.kind = "jstr"
    /\ Len(rt.sent) = 1
    /\ rt.sent[1].v = <<104, 101, 108, 108, 111>>
    /\ rt.sent[1].room = 6
    /\ Len(rt.got) = 1
    /\ rt.got[1].v = <<104, 101, 108, 108, 111>>
    /\ pos = 6

\* No 0x00 byte in the readable region [pos, len).
NoTerminator == \A i \in (pos + 1)..len : i <= Len(bytes) => bytes[i] # 0

\* C16: gjstr returns an error and leaves pos unchanged whenever no 0x00
\* byte exists in the readable region [pos, len); it never accepts a
\* terminator at an index >= len and never moves pos beyond len.
C16_StringTerminator ==
    [][last'.op = "gjstr" =>
          /\ NoTerminator => (last'.kind = "err" /\ pos' = pos)
          /\ pos' # pos => pos' <= len]_vars

\* C17: each alt read is the exact inverse of the same-numbered alt write:
\* for every byte value v and k in {1, 2, 3}, p1_altk(v) followed by g1_altk
\* from the same position returns v, and for every 16-bit value v,
\* p2_altk(v) followed by g2_altk returns v.
C17_AltRoundTrip ==
    rt.kind \in AltKinds =>
        /\ last.kind = "ok"
        /\ \A i \in 1..Len(rt.got) : ReadBack(i)

\* C18: after rsa_encrypt(exponent, modulus) on a Packet whose cursor is at
\* p, with c = (bytes [0, p) as a signed big-endian integer)^exponent mod
\* modulus and N the length of c's signed big-endian encoding, bytes[0..2]
\* hold N as a big-endian 16-bit value, bytes[2..2+N] hold all N bytes of
\* that encoding, and pos = 2 + N.
C18_RsaLayout ==
    [][(last'.op = "rsa_encrypt" /\ pos <= len /\ len <= Len(bytes)) =>
          LET plain == from_signed_bytes_be(SubSeq(bytes, 1, pos), rt'.sent[2])
              c == modpow(plain, rt'.sent[1], rt'.sent[2])
              encoding == to_signed_bytes_be(c)
              N == Len(encoding)
          IN /\ last'.kind = "ok"
             /\ pos' = 2 + N
             /\ Len(bytes') >= 2 + N
             /\ SubSeq(bytes', 1, 2) = to_be_bytes(Bits(N, 16))
             /\ SubSeq(bytes', 3, 2 + N) = encoding]_vars

\* C19: set_pos(i) sets pos to i when i <= len; when i exceeds len it fails
\* with an invalid-argument error and leaves pos unchanged; in both cases
\* len and the stored bytes are unchanged.  last.n is the index i.
C19_SetPos ==
    [][last'.op = "set_pos" =>
          /\ len' = len
          /\ bytes' = bytes
          /\ IF last'.n <= len
             THEN last'.kind = "ok" /\ pos' = last'.n
             ELSE last'.kind = "invalid_input" /\ pos' = pos]_vars

\* C20: in every reachable Packet state (cursor within the written extent),
\* available() reports len - pos, agreeing with available_count(), and
\* has_available(n) is true exactly when n <= len - pos, also when the
\* storage is longer than the written extent.
C20_Available ==
    pos <= len =>
        /\ available(Pkt) = <<len - pos>>
        /\ available(Pkt) = <<available_count(Pkt)>>
        /\ \A n \in 0..(MaxSize + 1) : has_available(Pkt, n) <=> n <= len - pos

\* C21: align_writer (respectively align_reader) moves that cursor to bit
\* offset 0 of the next byte exactly when its bit offset is > 0 and otherwise
\* changes nothing; it is idempotent (a second alignment changes nothing),
\* never changes the other cursor or any buffer byte, and a byte-aligned
\* field written after align_writer is read back unchanged after
\* align_reader from the matching position.
AlignsWriter ==
    /\ last'.kind = "ok"
    /\ IF writer_bit_pos > 0
       THEN writer_byte_pos' = writer_byte_pos + 1 /\ writer_bit_pos' = 0
       ELSE UNCHANGED <<writer_byte_pos, writer_bit_pos>>
    /\ align_writer(BitPkt') = {Ok(BitPkt', Unit)}
    /\ UNCHANGED <<reader_byte_pos, reader_bit_pos, buffer>>

AlignsReader ==
    /\ last'.kind = "ok"
    /\ IF reader_bit_pos > 0
       THEN reader_byte_pos' = reader_byte_pos + 1 /\ reader_bit_pos' = 0
       ELSE UNCHANGED <<reader_byte_pos, reader_bit_pos>>
    /\ align_reader(BitPkt') = {Ok(BitPkt', Unit)}
    /\ UNCHANGED <<writer_byte_pos, writer_bit_pos, buffer>>

\* The i-th call of the writer wrote a field right after an alignment.
AlignedField(i) == i > 1 /\ rt.sent[i] # AlignMark /\ rt.sent[i - 1] = AlignMark

AlignedReadBack ==
    rt.kind = "align" =>
        \A i \in 1..Len(rt.got) : AlignedField(i) => rt.got[i] = rt.sent[i][1]

C21_Align ==
    /\ [][/\ last'.op = "align_writer" => AlignsWriter
          /\ last'.op = "align_reader" => AlignsReader]_vars
    /\ []AlignedReadBack

\* A 3-bit field, an alignment and an 8-bit field were written into bytes 0
\* and 1, and the replay returned both fields.
C21_Witness ==
    /\ rt.kind = "align"
    /\ rt.sent = <<<<Bits(5, 32), 3>>, AlignMark, <<Bits(165, 32), 8>>>>
    /\ rt.got = <<Bits(5, 32), Unit, Bits(165, 32)>>
    /\ writer_byte_pos = 2 /\ reader_byte_pos = 2
    /\ buffer[1] = 160 /\ buffer[2] = 165

\* C22: in every reachable PacketBit state, bits_written() =
\* 8*writer_byte_pos + writer_bit_pos with 0 <= writer_bit_pos < 8 (and
\* likewise bits_read() for the reader cursor), and as_slice() is exactly the
\* first ceil(bits_written()/8) bytes of the buffer, which always lie within
\* the allocated buffer.
C22_BitCursors ==
    LET written == (bits_written(BitPkt) + 7) \div 8
    IN /\ writer_bit_pos \in 0..7
       /\ reader_bit_pos \in 0..7
       /\ bits_written(BitPkt) = 8 * writer_byte_pos + writer_bit_pos
       /\ bits_read(BitPkt) = 8 * reader_byte_pos + reader_bit_pos
       /\ written <= Len(buffer)
       /\ as_slice(BitPkt) = {Ok(BitPkt, SubSeq(buffer, 1, written))}

\* Both cursors stand inside a byte, the writer in the second byte of a
\* buffer of four: the slice is the first two bytes.
C22_Witness ==
    /\ writer_byte_pos = 1 /\ writer_bit_pos > 0
    /\ reader_bit_pos > 0
    /\ Len(buffer) = 4
    /\ as_slice(BitPkt) = {Ok(BitPkt, SubSeq(buffer, 1, 2))}

\* C23: after append_slice(s) in any reachable Packet state (cursor within
\* the written extent), pos is unchanged and the readable region
\* bytes[pos..len] equals the readable region from before the call followed
\* by exactly the bytes of s, with no other bytes in between.
C23_AppendSlice ==
    [][(last'.op = "append_slice" /\ pos <= len /\ len <= Len(bytes)) =>
          /\ last'.kind = "ok"
          /\ pos' = pos
          /\ len' <= Len(bytes')
          /\ SubSeq(bytes', pos + 1, len') = SubSeq(bytes, pos + 1, len) \o rt'.sent]_vars

\* C24: write_bits with a valid bit count terminates for every PacketBit
\* however it was constructed, including with_capacity(0) and from_bytes of
\* an empty slice: the doubling loop of ensure_capacity reaches the required
\* capacity, and all previously written bits are preserved by the growth.
WrittenBitsKept ==
    /\ \A i \in 1..writer_byte_pos : buffer'[i] = buffer[i]
    /\ writer_bit_pos > 0 =>
          SubSeq(Bits(buffer'[writer_byte_pos + 1], 8), 1, writer_bit_pos)
          = SubSeq(Bits(buffer[writer_byte_pos + 1], 8), 1, writer_bit_pos)

C24_WriteBitsTerminates ==
    [][(calls' = calls + 1 /\ last'.op = "write_bits" /\ ~InvalidBits(last'.n)) =>
          /\ last'.kind = "ok"
          /\ Len(buffer') >= (bits_written(BitPkt) + last'.n + 7) \div 8
          /\ WrittenBitsKept]_vars

====
